---------------------------- MODULE Spec2Model ----------------------------
(***************************************************************************)
(* The Durak game engine of src/unnamed/part_000 (class Game and the deck  *)
(* helpers) as a state machine.                                            *)
(*                                                                         *)
(* A JavaScript string is modelled as the sequence of its tokens: the card *)
(* '7 of H' is <<"7", " of ", "Hearts">>, so that String.split(" of ") is  *)
(* a real computation.  JavaScript values that may change type at run time *)
(* (a table top value, a player's deck) carry a tag: [kind, val].          *)
(***************************************************************************)
EXTENDS Integers, Sequences, FiniteSets, TLC

VARIABLES
    status,      \* "new" before `new Game(...)`, then "ready" or "failed" (the constructor threw)
    deck,        \* this.deck: the stock, head first
    players,     \* this.players: the player records in key (insertion) order
    tableTop,    \* this.tableTop: the entries [key, value] in key (insertion) order
    trumpSuite,  \* this.trumpSuite
    history,     \* this.history
    shuffled,    \* the deck as shuffleDeck left it (kept to state what the deal did)
    call,        \* the last call made on the game and how it ended
    result,      \* a call of a deck helper (shuffleDeck, parseCard): its input and what it returned
    lobby,       \* the lobby document of the database: [players, maxPlayers]
    requests     \* the calls of LobbyService.addUserTo in flight: where each is, and its locals

vars == <<status, deck, players, tableTop, trumpSuite, history, shuffled, call,
          result, lobby, requests>>

---------------------------------------------------------------------------
(* Bounds of the model. *)

\* Math.random() is modelled by MaxSeed + 1 streams of fractions q / RandomDenominator.
MaxSeed == 2
RandomDenominator == 64
\* `players` arguments are the halves -MinPlayersHalves/2 .. MaxPlayersHalves/2.
MinPlayersHalves == 3
MaxPlayersHalves == 18

---------------------------------------------------------------------------
(* Strings and cards. *)

CardLabels == <<"2", "3", "4", "5", "6", "7", "8", "9", "10", "Jack", "Queen", "King", "Ace">>
CardSuits == <<"Hearts", "Diamonds", "Clubs", "Spades">>

Separator == " of "

Range(s) == {s[i] : i \in 1..Len(s)}

Includes(s, x) == \E i \in 1..Len(s) : s[i] = x

RECURSIVE Flat(_)
Flat(ss) == IF ss = <<>> THEN <<>> ELSE Head(ss) \o Flat(Tail(ss))

\* `${suit} of ${label}`
CardStringSuitFirst(label, suit) == <<suit, Separator, label>>

\* `${label} of ${suit}`
CardString(label, suit) == <<label, Separator, suit>>

generateCardDeck ==
    Flat([i \in 1..Len(CardLabels) |->
            [j \in 1..Len(CardSuits) |-> CardString(CardLabels[i], CardSuits[j])]])

\* The split that forgets the piece after the last separator.
RECURSIVE SplitNoLast(_, _, _)
SplitNoLast(str, sep, piece) ==
    IF str = <<>> THEN <<>>
    ELSE IF Head(str) = sep THEN <<piece>> \o SplitNoLast(Tail(str), sep, <<>>)
    ELSE SplitNoLast(Tail(str), sep, Append(piece, Head(str)))

\* String.prototype.split: the pieces of str between the occurrences of sep.
RECURSIVE Split(_, _, _)
Split(str, sep, piece) ==
    IF str = <<>> THEN <<piece>>
    ELSE IF Head(str) = sep THEN <<piece>> \o Split(Tail(str), sep, <<>>)
    ELSE Split(Tail(str), sep, Append(piece, Head(str)))

parseCard(card) == Split(card, Separator, <<>>)

\* array[i] of JavaScript, 0-based: undefined past the end.
Undefined == <<"undefined">>
At(arr, i) == IF i + 1 \in 1..Len(arr) THEN arr[i + 1] ELSE Undefined

\* The k-th value (k = 0, 1, ...) Math.random() returns in stream `seed`, as a
\* numerator over RandomDenominator.
MathRandom(seed, k) == (seed * (k + 1) * 37 + seed * seed) % RandomDenominator

\* The swap without the temporary: deck[i] = deck[j]; deck[j] = deck[i].
SwapNoTemp(arr, i, j) == [arr EXCEPT ![i + 1] = arr[j + 1]]

Swap(arr, i, j) == [arr EXCEPT ![i + 1] = arr[j + 1], ![j + 1] = arr[i + 1]]

\* The loop with the index drawn after currentIndex -= 1: a value of 0..i-2.
RECURSIVE shuffleLoopLateDraw(_, _)
shuffleLoopLateDraw(s, rnd) ==
    IF 0 = s.currentIndex THEN s.deck
    ELSE LET currentIndex == s.currentIndex - 1
             randomIndex == (rnd[s.currentIndex] * currentIndex) \div s.currentIndex
         IN  shuffleLoopLateDraw([deck |-> Swap(s.deck, currentIndex, randomIndex),
                                  currentIndex |-> currentIndex], rnd)

\* The while loop of shuffleDeck on its locals s = [deck, currentIndex]: rnd[i]
\* is the randomIndex drawn while currentIndex = i, a value of 0..i-1.
RECURSIVE shuffleLoop(_, _)
shuffleLoop(s, rnd) ==
    IF 0 = s.currentIndex THEN s.deck
    ELSE LET randomIndex == rnd[s.currentIndex]
             currentIndex == s.currentIndex - 1
         IN  shuffleLoop([deck |-> Swap(s.deck, currentIndex, randomIndex),
                          currentIndex |-> currentIndex], rnd)

shuffleDeck(arr, rnd) == shuffleLoop([deck |-> arr, currentIndex |-> Len(arr)], rnd)

\* Math.floor(Math.random() * currentIndex) for each currentIndex of one shuffle.
RandomIndices(seed, n) ==
    [i \in 1..n |-> (MathRandom(seed, n - i) * i) \div RandomDenominator]

---------------------------------------------------------------------------
(* Tagged JavaScript values. *)

JsNull == [kind |-> "null", val |-> <<>>]
JsString(s) == [kind |-> "string", val |-> s]
JsArray(a) == [kind |-> "array", val |-> a]
JsBoolean(b) == [kind |-> "boolean", val |-> <<b>>]

JsUndefined == [kind |-> "undefined", val |-> <<>>]
JsNumber(n) == [kind |-> "number", val |-> <<n>>]

\* The number of UTF-16 units of a token: String.prototype.length adds them up.
TokenLength(t) ==
    CASE t = Separator -> 4
      [] t \in {"10"} -> 2
      [] t = "Ace" -> 3
      [] t \in {"Jack", "King"} -> 4
      [] t \in {"Queen", "Joker"} -> 5
      [] OTHER -> 1

RECURSIVE StringLength(_)
StringLength(str) == IF str = <<>> THEN 0 ELSE TokenLength(Head(str)) + StringLength(Tail(str))

\* v.length: a TypeError on null and undefined, undefined on a boolean.
ThrowsOnProperty(v) == v.kind \in {"null", "undefined"}
LengthOf(v) ==
    CASE v.kind = "array" -> JsNumber(Len(v.val))
      [] v.kind = "string" -> JsNumber(StringLength(v.val))
      [] OTHER -> JsUndefined

\* a !== b
StrictNotEqual(a, b) == JsBoolean(~(a.kind = b.kind /\ a.val = b.val))

\* Array.prototype.reduce((item) => item !== x) without an initial value, on a
\* non-empty array: the first element is the accumulator, and the callback,
\* which reads its first parameter only (the accumulator), runs on the rest.
RECURSIVE ReduceFrom(_, _, _)
ReduceFrom(x, acc, rest) ==
    IF rest = <<>> THEN acc ELSE ReduceFrom(x, StrictNotEqual(acc, x), Tail(rest))

---------------------------------------------------------------------------
(* Game: the constructor. *)

DECK_SIZE == 6
MaxPlayers == 8

ErrNotPositiveInteger == "Number of players must be a positive integer."
ErrTooManyPlayers == "Number of players cannot be greater than eight."
ErrTypeError == "TypeError"
NoError == "none"

\* A `players` argument is given in halves: h stands for the number h / 2.
NumberIsInteger(h) == h % 2 = 0

NewPlayer == [deck |-> JsArray(<<>>), startsFirst |-> FALSE, defending |-> FALSE]

\* for (let index = 0; index < players; index++) this.players[nanoid()] = {...}
\* (nanoid() is taken to return a fresh, non-numeric key each time, so the keys
\* keep their insertion order: a player is named by its position.)
RECURSIVE CreatePlayers(_, _, _)
CreatePlayers(h, index, acc) ==
    IF 2 * index < h THEN CreatePlayers(h, index + 1, Append(acc, NewPlayer)) ELSE acc

\* The constructor's check of `players`: the error it throws, or NoError.
CheckPlayers(h) ==
    IF ~NumberIsInteger(h) /\ h < 0 THEN ErrNotPositiveInteger
    ELSE IF h > 2 * MaxPlayers THEN ErrTooManyPlayers
    ELSE NoError

\* Array.prototype.shift: the first element (undefined on an empty array) and the rest.
Shift(arr) ==
    IF arr = <<>> THEN [value |-> Undefined, rest |-> <<>>]
    ELSE [value |-> Head(arr), rest |-> Tail(arr)]

Push(v, x) == JsArray(Append(v.val, x))

\* The deal taking the cards from the end of the stock: push(this.deck.pop()).
RECURSIVE DealRoundPop(_, _)
DealRoundPop(g, id) ==
    IF id > Len(g.players) \/ g.deck = <<>> THEN g
    ELSE DealRoundPop([players |-> [g.players EXCEPT ![id].deck = Push(@, g.deck[Len(g.deck)])],
                       deck |-> SubSeq(g.deck, 1, Len(g.deck) - 1)],
                      id + 1)

\* Object.keys(this.players).forEach(id => this.players[id].deck.push(this.deck.shift()))
RECURSIVE DealRound(_, _)
DealRound(g, id) ==
    IF id > Len(g.players) THEN g
    ELSE DealRound([players |-> [g.players EXCEPT ![id].deck = Push(@, Shift(g.deck).value)],
                    deck |-> Shift(g.deck).rest],
                   id + 1)

\* for (let index = 0; index < Game.DECK_SIZE; index++) { ... }
RECURSIVE Deal(_, _)
Deal(g, index) == IF index < DECK_SIZE THEN Deal(DealRound(g, 1), index + 1) ELSE g

\* The trump read from the wrong piece of the card: parseCard(this.deck[0])[0].
TrumpOfLabel(stock) == At(parseCard(At(stock, 0)), 0)

\* this.trumpSuite = parseCard(this.deck[0])[1]
TrumpOf(stock) == At(parseCard(At(stock, 0)), 1)

\* this.deck.push(this.deck.shift())
CycleFirst(stock) == Append(Shift(stock).rest, Shift(stock).value)

\* new Game(id, players, history) with `players` = h / 2 and the random stream `seed`.
Constructor(h, seed) ==
    LET cards == generateCardDeck
        mixed == shuffleDeck(cards, RandomIndices(seed, Len(cards)))
        error == CheckPlayers(h)
        dealt == Deal([players |-> CreatePlayers(h, 0, <<>>), deck |-> mixed], 0)
    IN  IF error # NoError
        THEN [error |-> error, shuffled |-> mixed, players |-> <<>>, deck |-> mixed,
              trumpSuite |-> Undefined]
        ELSE IF dealt.deck = <<>>
        THEN [error |-> ErrTypeError, shuffled |-> mixed, players |-> dealt.players,
              deck |-> dealt.deck, trumpSuite |-> Undefined]
        ELSE [error |-> NoError, shuffled |-> mixed, players |-> dealt.players,
              deck |-> CycleFirst(dealt.deck), trumpSuite |-> TrumpOf(dealt.deck)]

---------------------------------------------------------------------------
(* Game.addCardToTableTop and the stubs. *)

TABLE_LIMIT == 6

ErrTableFull == "Player deck already full."
ErrUnknownPlayer == "Player doesn't exist."
ErrInsufficient == "Player doesn't have enough cards to cover attack."
ErrInvalidCard == "Invalid card"
ErrNotHeld == "Player doesn't hold current card"
ErrRankNotOnTable == "Card numerical value isn't present on the table top."

\* Keys `from` may take: the position of a player, a key no player has, and a
\* key every object inherits (such as "constructor").
UnknownId == 0
ProtoKey == -1

ObjectKeys(tt) == [i \in 1..Len(tt) |-> tt[i].key]
ObjectValues(tt) == [i \in 1..Len(tt) |-> tt[i].value]

\* Object.entries(this.tableTop).flat()
getTableTopDeck(tt) == Flat([i \in 1..Len(tt) |-> <<JsString(tt[i].key), tt[i].value>>])

\* this.players[from]: a player record, an inherited member, or undefined.
PlayerExists(from) == from \in 1..Len(players) \/ from = ProtoKey
PlayerDeck(from) == IF from \in 1..Len(players) THEN players[from].deck ELSE JsUndefined

\* Object.values(this.tableTop).reduce((item) => item !== null): undefined here
\* stands for the TypeError reduce throws on an empty array.
ReduceValues(tt) ==
    IF tt = <<>> THEN JsUndefined
    ELSE ReduceFrom(JsNull, Head(ObjectValues(tt)), Tail(ObjectValues(tt)))

\* list.includes(piece) for a list of one-token strings and a piece of a split.
IncludesString(list, piece) == \E i \in 1..Len(list) : piece = <<list[i]>>

\* String.prototype.includes: `part` occurs in `str`.
IsSubstring(part, str) ==
    \E i \in 0..(Len(str) - Len(part)) : SubSeq(str, i + 1, i + Len(part)) = part

\* this.tableTop[card] = null: a new key goes last, a known key keeps its place.
SetNull(tt, card) ==
    IF Includes(ObjectKeys(tt), card)
    THEN [i \in 1..Len(tt) |-> IF tt[i].key = card THEN [key |-> card, value |-> JsNull] ELSE tt[i]]
    ELSE Append(tt, [key |-> card, value |-> JsNull])

\* player.deck.reduce((item) => item !== card) on a non-empty array.
RemoveByReduce(hand, card) ==
    LET items == [i \in 1..Len(hand) |-> JsString(hand[i])]
    IN  ReduceFrom(JsString(card), Head(items), Tail(items))

Thrown(error, at) == [error |-> error, at |-> at, tableTop |-> tableTop, players |-> players]

\* Lines 126-129: the table top is full.
TableIsFull(tt) == ~(Len(tt) < TABLE_LIMIT)

\* Lines 138-143, the numbers compared: keys - coveredCards + 1 > player.deck.length
\* is false as soon as one side is not a number (NaN).
CapacityExceeded(keys, coveredCards, handLength) ==
    /\ coveredCards.kind = "number"
    /\ handLength.kind = "number"
    /\ keys - coveredCards.val[1] + 1 > handLength.val[1]

\* Lines 163-167: the commit, once every check has passed.
Commit(from, card) ==
    LET hand == PlayerDeck(from)
        added == SetNull(tableTop, card)
    IN  IF hand.kind # "array"
        THEN [error |-> ErrTypeError, at |-> "commit", tableTop |-> added, players |-> players]
        ELSE [error |-> NoError, at |-> "done", tableTop |-> added,
              players |-> [players EXCEPT ![from].deck = RemoveByReduce(hand.val, card)]]

\* Lines 157-161: the rank of the card is on the table top.
RankCheck(from, card) ==
    LET cardLabel == At(parseCard(card), 0)
        onTable == getTableTopDeck(tableTop)
    IN  IF \E i \in 1..Len(onTable) : onTable[i].kind # "string"
        THEN Thrown(ErrTypeError, "rank")
        ELSE IF ~(\E i \in 1..Len(onTable) : At(parseCard(onTable[i].val), 0) = cardLabel)
        THEN Thrown(ErrRankNotOnTable, "rank")
        ELSE Commit(from, card)

\* Lines 145-155: the card is a card, and the player holds it.
CardChecks(from, card) ==
    LET parts == parseCard(card)
        hand == PlayerDeck(from)
    IN  IF ~IncludesString(CardLabels, At(parts, 0)) \/ ~IncludesString(CardSuits, At(parts, 1))
        THEN Thrown(ErrInvalidCard, "valid")
        ELSE IF hand.kind \notin {"array", "string"}
        THEN Thrown(ErrTypeError, "held")
        ELSE IF ~(IF hand.kind = "array" THEN Includes(hand.val, card)
                  ELSE IsSubstring(card, hand.val))
        THEN Thrown(ErrNotHeld, "held")
        ELSE RankCheck(from, card)

\* The capacity check with the table top written before it.
CapacityCheckAfterWrite(from, card) ==
    LET reduced == ReduceValues(tableTop)
        hand == PlayerDeck(from)
        written == [error |-> ErrTypeError, at |-> "capacity",
                    tableTop |-> SetNull(tableTop, card), players |-> players]
    IN  IF tableTop = <<>> \/ ThrowsOnProperty(reduced) \/ ThrowsOnProperty(hand)
        THEN written
        ELSE IF CapacityExceeded(Len(ObjectKeys(tableTop)), LengthOf(reduced), LengthOf(hand))
        THEN [written EXCEPT !.error = ErrInsufficient]
        ELSE CardChecks(from, card)

\* Lines 138-143: the defender can cover one more card.
CapacityCheck(from, card) ==
    LET reduced == ReduceValues(tableTop)
        hand == PlayerDeck(from)
    IN  IF tableTop = <<>> \/ ThrowsOnProperty(reduced) \/ ThrowsOnProperty(hand)
        THEN Thrown(ErrTypeError, "capacity")
        ELSE IF CapacityExceeded(Len(ObjectKeys(tableTop)), LengthOf(reduced), LengthOf(hand))
        THEN Thrown(ErrInsufficient, "capacity")
        ELSE CardChecks(from, card)

\* Game.addCardToTableTop(from, card): how the call ends (the error thrown and
\* the check that threw it) and the table top and players it leaves.
addCardToTableTop(from, card) ==
    IF TableIsFull(tableTop) THEN Thrown(ErrTableFull, "full")
    ELSE IF ~PlayerExists(from) THEN Thrown(ErrUnknownPlayer, "player")
    ELSE CapacityCheck(from, card)

---------------------------------------------------------------------------
(* The state machine. *)

NoCard == <<>>

Call(op, from, card, covering, arg, error, at) ==
    [op |-> op, from |-> from, card |-> card, covering |-> covering, arg |-> arg,
     error |-> error, at |-> at]

PlayersArgs == (0 - MinPlayersHalves)..MaxPlayersHalves
Seeds == 0..MaxSeed

Froms == (1..Len(players)) \cup {UnknownId, ProtoKey}

FirstCards(from) ==
    IF from \in 1..Len(players) /\ players[from].deck.kind = "array" /\ players[from].deck.val # <<>>
    THEN {players[from].deck.val[1]} ELSE {}

\* The card strings calls are made with: three cards, a string that is no
\* card, and the first card the caller holds.
FixedCards ==
    {CardString("7", "Hearts"), CardString("6", "Hearts"), CardString("9", "Hearts"), <<"Joker">>}

ArgCards(from) == FixedCards \cup FirstCards(from)

\* No helper has been called; no lobby is looked at.
NoResult == [op |-> "none", index |-> 0, input |-> <<>>, rnd |-> <<>>, done |-> FALSE,
             output |-> <<>>, error |-> NoError]
NoLobby == [players |-> <<>>, maxPlayers |-> 0]

Init ==
    /\ status = "new"
    /\ deck = <<>>
    /\ players = <<>>
    /\ tableTop = <<>>
    /\ trumpSuite = Undefined
    /\ history = <<>>
    /\ shuffled = <<>>
    /\ call = Call("none", 0, NoCard, NoCard, 0, NoError, "none")
    /\ result = NoResult
    /\ lobby = NoLobby
    /\ requests = <<>>

Construct ==
    /\ status = "new"
    /\ \E h \in PlayersArgs, seed \in Seeds :
        LET g == Constructor(h, seed) IN
        /\ call' = Call("new", 0, NoCard, NoCard, h, g.error, "constructor")
        /\ IF g.error = NoError
           THEN /\ status' = "ready"
                /\ deck' = g.deck
                /\ players' = g.players
                /\ trumpSuite' = g.trumpSuite
                /\ shuffled' = g.shuffled
           ELSE /\ status' = "failed"
                /\ UNCHANGED <<deck, players, trumpSuite, shuffled>>
        /\ tableTop' = <<>>
        /\ history' = <<>>
    /\ UNCHANGED <<result, lobby, requests>>

AddCardToTableTop ==
    /\ status = "ready"
    /\ \E from \in Froms : \E card \in ArgCards(from) :
        LET r == addCardToTableTop(from, card) IN
        /\ tableTop' = r.tableTop
        /\ players' = r.players
        /\ call' = Call("addCardToTableTop", from, card, NoCard, 0, r.error, r.at)
    /\ UNCHANGED <<status, deck, trumpSuite, history, shuffled, result, lobby, requests>>

\* coverCardOnTableTop(card, coveringCard) {}
CoverCardOnTableTop ==
    /\ status = "ready"
    /\ \E card \in FixedCards, coveringCard \in FixedCards :
        call' = Call("coverCardOnTableTop", 0, card, coveringCard, 0, NoError, "done")
    /\ UNCHANGED <<status, deck, players, tableTop, trumpSuite, history, shuffled,
                   result, lobby, requests>>

\* moveTableTopTo(to) {}
MoveTableTopTo ==
    /\ status = "ready"
    /\ \E to \in Froms : call' = Call("moveTableTopTo", to, NoCard, NoCard, 0, NoError, "done")
    /\ UNCHANGED <<status, deck, players, tableTop, trumpSuite, history, shuffled,
                   result, lobby, requests>>

\* voidTableTop() {}
VoidTableTop ==
    /\ status = "ready"
    /\ call' = Call("voidTableTop", 0, NoCard, NoCard, 0, NoError, "done")
    /\ UNCHANGED <<status, deck, players, tableTop, trumpSuite, history, shuffled,
                   result, lobby, requests>>

Next ==
    \/ Construct
    \/ AddCardToTableTop
    \/ CoverCardOnTableTop
    \/ MoveTableTopTo
    \/ VoidTableTop

Spec == Init /\ [][Next]_vars

\* Lines 163-167 on their own: the commit of addCardToTableTop(from, card) run
\* on a game the constructor has just built, for a card the player holds. No
\* history node is added (line 163 is a comment, addHistoryNode is never called).
CommitStep ==
    /\ status = "ready"
    /\ call.op = "new"
    /\ \E from \in 1..Len(players) : \E card \in Range(PlayerDeck(from).val) :
        LET r == Commit(from, card) IN
        /\ tableTop' = r.tableTop
        /\ players' = r.players
        /\ call' = Call("commit", from, card, NoCard, 0, r.error, r.at)
    /\ UNCHANGED <<status, deck, trumpSuite, history, shuffled, result, lobby, requests>>

NextCommit ==
    \/ Construct
    \/ CommitStep

SpecCommit == Init /\ [][NextCommit]_vars

---------------------------------------------------------------------------
(* The deck helpers, called on their own. *)

MaxShuffle == 5

\* The index sequences one shuffle of n cards can draw: randomIndex =
\* Math.floor(Math.random() * currentIndex) is a value of 0..currentIndex-1.
RECURSIVE Choices(_)
Choices(n) ==
    IF n = 0 THEN {<<>>}
    ELSE {Append(r, x) : r \in Choices(n - 1), x \in 0..(n - 1)}

\* Strings without the separator: 'Joker', '', '7Hearts', '7ofHearts'.
Unseparated == {<<"Joker">>, <<>>, <<"7", "Hearts">>, <<"7", "of", "Hearts">>}

HelperCall(op, index, input, rnd) ==
    [op |-> op, index |-> index, input |-> input, rnd |-> rnd, done |-> FALSE,
     output |-> <<>>, error |-> NoError]

\* The calls made: shuffleDeck on the first n cards of the generated deck with
\* each index sequence, parseCard on each generated card (index is its
\* position) and on each string without the separator.
HelperCalls ==
    {HelperCall("shuffleDeck", 0, SubSeq(generateCardDeck, 1, Len(r)), r) :
        r \in UNION {Choices(n) : n \in 0..MaxShuffle}}
    \cup {HelperCall("parseCard", k, generateCardDeck[k], <<>>) : k \in 1..Len(generateCardDeck)}
    \cup {HelperCall("parseCard", 0, str, <<>>) : str \in Unseparated}

InitDeck ==
    /\ status = "new"
    /\ deck = <<>>
    /\ players = <<>>
    /\ tableTop = <<>>
    /\ trumpSuite = <<>>
    /\ history = <<>>
    /\ shuffled = <<>>
    /\ call = Call("none", 0, NoCard, NoCard, 0, NoError, "none")
    /\ result \in HelperCalls
    /\ lobby = NoLobby
    /\ requests = <<>>

\* shuffleDeck(deck) returns the array it shuffled.
ShuffleDeck ==
    /\ result.op = "shuffleDeck"
    /\ ~result.done
    /\ result' = [result EXCEPT !.done = TRUE,
                                !.output = shuffleDeck(result.input, result.rnd)]
    /\ UNCHANGED <<status, deck, players, tableTop, trumpSuite, history, shuffled, call,
                   lobby, requests>>

\* parseCard(card) returns card.split(" of "); split does not throw on a string.
ParseCard ==
    /\ result.op = "parseCard"
    /\ ~result.done
    /\ result' = [result EXCEPT !.done = TRUE, !.output = parseCard(result.input)]
    /\ UNCHANGED <<status, deck, players, tableTop, trumpSuite, history, shuffled, call,
                   lobby, requests>>

NextDeck ==
    \/ ShuffleDeck
    \/ ParseCard

SpecDeck == InitDeck /\ [][NextDeck]_vars

---------------------------------------------------------------------------
(* LobbyService.addUserTo on one lobby document. *)

MaxLobbyPlayers == 3
MaxRequests == 3

\* A DBPlayer, as far as addUserTo reads it.
Player(name, confirmed) == [name |-> name, confirmed |-> confirmed]

\* create: the owner is the first player, confirmed.
OwnerAsPlayer == Player(0, TRUE)

\* Array.prototype.findIndex((player) => !player.confirmed): 0-based, -1 if none.
FindIndexUnconfirmed(arr) ==
    IF \E i \in 1..Len(arr) : ~arr[i].confirmed
    THEN (CHOOSE i \in 1..Len(arr) :
            ~arr[i].confirmed /\ \A j \in 1..(i - 1) : arr[j].confirmed) - 1
    ELSE 0 - 1

\* arr[idx] = v: at idx = -1 the array gets a property, its elements stay.
SetAt(arr, idx, v) ==
    IF idx + 1 \in 1..Len(arr) THEN [arr EXCEPT ![idx + 1] = v] ELSE arr

\* Lines 328-333: the player list addUserTo makes of the lobby it has read.
AddPlayer(doc, player) ==
    IF Len(doc.players) = doc.maxPlayers
    THEN SetAt(doc.players, FindIndexUnconfirmed(doc.players), player)
    ELSE Append(doc.players, player)

\* The lobby as create leaves it.
InitLobby ==
    /\ status = "new"
    /\ deck = <<>>
    /\ players = <<>>
    /\ tableTop = <<>>
    /\ trumpSuite = <<>>
    /\ history = <<>>
    /\ shuffled = <<>>
    /\ call = Call("none", 0, NoCard, NoCard, 0, NoError, "none")
    /\ result = NoResult
    /\ \E maxPlayers \in 1..MaxLobbyPlayers :
        lobby = [players |-> <<OwnerAsPlayer>>, maxPlayers |-> maxPlayers]
    /\ requests = <<>>

\* addUserTo(pin, player) is called: it waits for getByPin.
AddUserTo ==
    /\ Len(requests) < MaxRequests
    /\ \E confirmed \in BOOLEAN :
        requests' = Append(requests, [pc |-> "getByPin",
                                      player |-> Player(Len(requests) + 1, confirmed),
                                      lobby |-> NoLobby])
    /\ UNCHANGED <<status, deck, players, tableTop, trumpSuite, history, shuffled, call,
                   result, lobby>>

\* const lobby = await this.getByPin(pin): findOne reads the document.
GetByPin ==
    /\ \E r \in 1..Len(requests) :
        /\ requests[r].pc = "getByPin"
        /\ requests' = [requests EXCEPT ![r].pc = "updateOne", ![r].lobby = lobby]
    /\ UNCHANGED <<status, deck, players, tableTop, trumpSuite, history, shuffled, call,
                   result, lobby>>

\* Lines 328-343: the list is changed and updateOne sets it in the document.
UpdateOne ==
    /\ \E r \in 1..Len(requests) :
        /\ requests[r].pc = "updateOne"
        /\ lobby' = [lobby EXCEPT !.players = AddPlayer(requests[r].lobby, requests[r].player)]
        /\ requests' = [requests EXCEPT ![r].pc = "done"]
    /\ UNCHANGED <<status, deck, players, tableTop, trumpSuite, history, shuffled, call,
                   result>>

NextLobby ==
    \/ AddUserTo
    \/ GetByPin
    \/ UpdateOne

SpecLobby == InitLobby /\ [][NextLobby]_vars

---------------------------------------------------------------------------
(* Properties. *)

IsPlayer(from) == from \in 1..Len(players)

\* The cards a player holds: none once the deck is no array.
Hand(p) == IF players[p].deck.kind = "array" THEN players[p].deck.val ELSE <<>>

Hands == Flat([p \in 1..Len(players) |-> Hand(p)])

\* The cards on the table: the keys and the values that are cards.
TableCards(tt) ==
    Flat([i \in 1..Len(tt) |->
            IF tt[i].value.kind = "string" THEN <<tt[i].key, tt[i].value.val>> ELSE <<tt[i].key>>])

Uncovered(tt) == Cardinality({i \in 1..Len(tt) : tt[i].value.kind = "null"})

\* The engine keeps no discard pile: voidTableTop is empty.
Discarded == <<>>

EveryCard == deck \o Hands \o TableCards(tableTop) \o Discarded

Occurrences(cards, c) == Cardinality({i \in 1..Len(cards) : cards[i] = c})

IsCard(card) ==
    /\ Len(parseCard(card)) = 2
    /\ IncludesString(CardLabels, At(parseCard(card), 0))
    /\ IncludesString(CardSuits, At(parseCard(card), 1))

LabelOf(card) == At(parseCard(card), 0)
SuitOf(card) == At(parseCard(card), 1)
RankOf(card) == CHOOSE i \in 1..Len(CardLabels) : <<CardLabels[i]>> = LabelOf(card)

\* The cover rule of Durak: same suit and higher rank, or a trump on a non-trump.
Beats(covering, attacked, trump) ==
    /\ IsCard(covering)
    /\ IsCard(attacked)
    /\ \/ SuitOf(covering) = SuitOf(attacked) /\ RankOf(covering) > RankOf(attacked)
       \/ SuitOf(covering) = trump /\ SuitOf(attacked) # trump

AddCalled == call.op = "addCardToTableTop"

\* A game of at least two players: an attacker and a defender.
Playable == status = "ready" /\ Len(players) >= 2

\* C1: in every state of a constructed game the stock, the hands, the table
\* top and the discarded cards hold each of the 52 cards exactly once.
C1_Conservation ==
    status = "ready" =>
        /\ Len(EveryCard) = 52
        /\ Len(generateCardDeck) = 52
        /\ \A c \in Range(generateCardDeck) : Occurrences(EveryCard, c) = 1

C1_Witness ==
    /\ status = "ready"
    /\ AddCalled
    /\ Len(players) = 2
    /\ Len(deck) = 40
    /\ Len(Hands) = 12

\* C2: a call of addCardToTableTop that throws leaves the stock, every hand,
\* the table top and the history as they were.
C2_ValidateThenCommit ==
    [][(call'.op = "addCardToTableTop" /\ call'.error # NoError)
        => UNCHANGED <<deck, players, tableTop, history>>]_vars

C2_Witness ==
    /\ AddCalled
    /\ call.error # NoError
    /\ IsPlayer(call.from)
    /\ Includes(Hand(call.from), call.card)

\* C3: in a game of two or more players coverCardOnTableTop(attacked, covering),
\* called with two cards, succeeds exactly when the covering card beats the
\* attacked one (same suit and higher rank, or a trump on a non-trump), and a
\* success sets the value of the attacked card's entry.
C3_CoverLegality ==
    (Playable /\ call.op = "coverCardOnTableTop" /\ IsCard(call.card) /\ IsCard(call.covering)) =>
        /\ (call.error = NoError) <=> Beats(call.covering, call.card, trumpSuite)
        /\ call.error = NoError =>
             \E i \in 1..Len(tableTop) :
                 tableTop[i] = [key |-> call.card, value |-> JsString(call.covering)]

\* C4: in a game of two or more players, on an empty table top a player's attack with a card he holds succeeds
\* whatever its rank; on a non-empty one it fails for its rank exactly when no
\* card on the table has that rank.
C4_FirstAttackUnconstrained ==
    [][(/\ Playable
        /\ call'.op = "addCardToTableTop"
        /\ IsPlayer(call'.from)
        /\ IsCard(call'.card)
        /\ Includes(Hand(call'.from), call'.card))
        => /\ tableTop = <<>> => call'.error = NoError
           /\ tableTop # <<>> =>
                ((call'.error = ErrRankNotOnTable) <=>
                    ~(\E c \in Range(TableCards(tableTop)) : LabelOf(c) = LabelOf(call'.card)))]_vars

\* C5: a player's call that reaches the capacity check fails there, with the
\* insufficient-cards error, exactly when the uncovered attacks plus one
\* exceed the size of the defending player's hand.
C5_DefenderCapacity ==
    [][(/\ Playable
        /\ call'.op = "addCardToTableTop"
        /\ IsPlayer(call'.from)
        /\ call'.at \notin {"full", "player"})
        => /\ (call'.at = "capacity") <=>
                (\E p \in 1..Len(players) :
                    players[p].defending /\ Uncovered(tableTop) + 1 > Len(Hand(p)))
           /\ call'.at = "capacity" => call'.error = ErrInsufficient]_vars

\* C7: the constructor succeeds exactly when `players` is an integer of 1..8.
C7_PlayerCountValidated ==
    call.op = "new" =>
        ((call.error = NoError) <=>
            (NumberIsInteger(call.arg) /\ 2 * 1 <= call.arg /\ call.arg <= 2 * MaxPlayers))

\* C8: after the constructor every player holds 6 cards, the stock holds
\* 52 - 6n, and the k-th player holds the cards the shuffled deck had at
\* positions k, k + n, ..., k + 5n (0-based).
C8_RoundRobinDeal ==
    (status = "ready" /\ call.op = "new") =>
        LET n == Len(players) IN
        /\ Len(deck) = 52 - DECK_SIZE * n
        /\ \A k \in 0..(n - 1) :
            /\ players[k + 1].deck.kind = "array"
            /\ Len(Hand(k + 1)) = DECK_SIZE
            /\ \A j \in 0..(DECK_SIZE - 1) : Hand(k + 1)[j + 1] = At(shuffled, k + j * n)

C8_Witness ==
    /\ status = "ready"
    /\ call.op = "new"
    /\ Len(players) = 2
    /\ Len(deck) = 40
    /\ shuffled # generateCardDeck

\* The trump suit and the stock as the constructor leaves them.
TrumpAfterConstructor ==
    (status = "ready" /\ call.op = "new") =>
        LET first == DECK_SIZE * Len(players) IN
        /\ trumpSuite = SuitOf(At(shuffled, first))
        /\ IncludesString(CardSuits, trumpSuite)
        /\ deck = SubSeq(shuffled, first + 2, Len(shuffled)) \o <<At(shuffled, first)>>

\* C9: the trump suit is the suit of the card that headed the stock after the
\* deal (position 6n of the shuffled deck), that card is the last of the stock
\* behind the others in their order, and no operation changes the trump suit.
C9_TrumpAssignment ==
    /\ []TrumpAfterConstructor
    /\ [][status = "ready" => trumpSuite' = trumpSuite]_vars

C9_Witness ==
    /\ status = "ready"
    /\ AddCalled
    /\ Len(players) = 3
    /\ trumpSuite = SuitOf(deck[Len(deck)])
    /\ trumpSuite # SuitOf(deck[1])

\* C10: exactly one player of a constructed game of two or more players is the
\* defender.
C10_OneDefender ==
    Playable => Cardinality({p \in 1..Len(players) : players[p].defending}) = 1

\* The hand without its first occurrence of `card`.
Without(hand, card) ==
    LET i == CHOOSE k \in 1..Len(hand) : hand[k] = card /\ \A j \in 1..(k - 1) : hand[j] # card
    IN  SubSeq(hand, 1, i - 1) \o SubSeq(hand, i + 1, Len(hand))

SixErrors ==
    {ErrTableFull, ErrUnknownPlayer, ErrInsufficient, ErrInvalidCard, ErrNotHeld, ErrRankNotOnTable}

\* C12: in a game of two or more players every failing call of
\* addCardToTableTop fails with one of the six validation errors, and a call
\* by a player with a string that is no card fails with the invalid-card error.
C12_SpecificErrors ==
    (Playable /\ AddCalled /\ call.error # NoError) =>
        /\ call.error \in SixErrors
        /\ (IsPlayer(call.from) /\ ~IsCard(call.card) /\ tableTop = <<>>)
              => call.error = ErrInvalidCard

\* C17: the table top is empty in every state, and the hands and the stock of
\* a constructed game stay as the constructor dealt them.
C17_TableTopStaysEmpty ==
    /\ [](tableTop = <<>>)
    /\ [][status = "ready" => (players' = players /\ deck' = deck)]_vars

C17_Witness ==
    /\ Playable
    /\ AddCalled
    /\ IsPlayer(call.from)
    /\ IsCard(call.card)
    /\ Includes(Hand(call.from), call.card)
    /\ call.at = "capacity"
    /\ tableTop = <<>>
    /\ Len(Hand(call.from)) = DECK_SIZE

RECURSIVE Factorial(_)
Factorial(n) == IF n = 0 THEN 1 ELSE n * Factorial(n - 1)

IsPermutation(a, b) ==
    /\ Len(a) = Len(b)
    /\ \A c \in Range(a) \cup Range(b) : Occurrences(a, c) = Occurrences(b, c)

\* C13: shuffleDeck returns the cards it was given, each once, and no other
\* index sequence of the n! a shuffle of n cards can draw gives the same order:
\* index sequences and orders are in bijection.
C13_ShuffleBijection ==
    (result.op = "shuffleDeck" /\ result.done) =>
        LET n == Len(result.input) IN
        /\ IsPermutation(result.output, result.input)
        /\ Cardinality(Choices(n)) = Factorial(n)
        /\ \A r \in Choices(n) :
              r # result.rnd => shuffleDeck(result.input, r) # result.output

C13_Witness ==
    /\ result.op = "shuffleDeck"
    /\ result.done
    /\ Len(result.input) = 4
    /\ result.output[1] = result.input[3]
    /\ result.output[4] = result.input[1]

\* The pieces joined with the separator between them.
RECURSIVE Join(_, _)
Join(pieces, sep) ==
    IF pieces = <<>> THEN <<>>
    ELSE IF Len(pieces) = 1 THEN pieces[1]
    ELSE pieces[1] \o <<sep>> \o Join(Tail(pieces), sep)

\* C14: the generated deck holds 52 different strings in rank-major order;
\* parseCard of the k-th gives its rank and its suit, and the two joined with
\* ' of ' give the string back.
C14_CardRoundTrip ==
    (result.op = "parseCard" /\ result.done /\ result.index > 0) =>
        LET label == CardLabels[((result.index - 1) \div Len(CardSuits)) + 1]
            suit == CardSuits[((result.index - 1) % Len(CardSuits)) + 1]
        IN  /\ Len(generateCardDeck) = 52
            /\ Cardinality(Range(generateCardDeck)) = 52
            /\ result.output = << <<label>>, <<suit>> >>
            /\ Join(result.output, Separator) = result.input
            /\ result.input = generateCardDeck[result.index]

C14_Witness ==
    /\ result.op = "parseCard"
    /\ result.done
    /\ result.index = 52
    /\ result.output = << <<"Ace">>, <<"Spades">> >>

ErrInvalidCardFormat == "InvalidCardFormat"

\* C15: parseCard fails with InvalidCardFormat on a string without ' of '.
C15_ParseFailure ==
    (result.op = "parseCard" /\ result.done /\ ~Includes(result.input, Separator)) =>
        result.error = ErrInvalidCardFormat

\* C15, amended: parseCard returns, on a string without ' of ', an array of one
\* element, the string itself, and throws nothing.
C15_ParseWithoutSeparator ==
    (result.op = "parseCard" /\ result.done /\ ~Includes(result.input, Separator)) =>
        /\ result.error = NoError
        /\ result.output = <<result.input>>
        /\ At(result.output, 1) = Undefined

C15_Witness ==
    /\ result.op = "parseCard"
    /\ result.done
    /\ result.input = <<"Joker">>
    /\ result.output = << <<"Joker">> >>

FreeSlots(doc) == doc.maxPlayers - Len(doc.players)

\* C18: when two calls of addUserTo, for different players, have both read a
\* lobby with two or more free slots and both have returned, the stored list
\* holds both players.
C18_NoLostJoin ==
    (/\ Len(requests) = 2
     /\ \A r \in 1..2 : requests[r].pc = "done" /\ FreeSlots(requests[r].lobby) >= 2)
        => \A r \in 1..2 : Includes(lobby.players, requests[r].player)

\* C19: the stored list never holds more than maxPlayers players, and the
\* write of a call that read a full lobby changes no more than the first
\* unconfirmed entry of the stored list and no confirmed one.
C19_LobbyCapacity ==
    /\ [](Len(lobby.players) <= lobby.maxPlayers)
    /\ [][\A r \in 1..Len(requests) :
            (/\ requests[r].pc = "updateOne"
             /\ requests'[r].pc = "done"
             /\ FreeSlots(requests[r].lobby) = 0)
            => /\ Len(lobby.players') = Len(lobby.players)
               /\ \A i \in 1..Len(lobby.players) :
                    (lobby.players[i].confirmed \/ i # FindIndexUnconfirmed(lobby.players) + 1)
                        => lobby.players'[i] = lobby.players[i]]_vars

=============================================================================
